---- MODULE Spec2Model ----
(***************************************************************************)
(* Model of scripts/check-local-status.py: a single-threaded loop that     *)
(* polls the commit-status API until the required context reports          *)
(* "success" or the deadline passes.                                       *)
(*                                                                         *)
(* Python values are modelled as follows.  An optional value (None or a    *)
(* value) is a sequence of length 0 or 1.  A text that the code parses or  *)
(* prints is a sequence of pieces (characters for the integer texts of the *)
(* environment, string pieces for the f-string lines).  time.time() is the *)
(* integer variable now; it advances while a fetch is outstanding and      *)
(* while the process sleeps.                                               *)
(***************************************************************************)
EXTENDS Integers, Sequences, FiniteSets, TLC

\* ---------------------------------------------------------------- bounds
MaxWait == 2
MaxPoll == 1
MaxLen == 2
MaxFetches == 3
MaxFetchElapsed == 1
T0 == 5

\* ------------------------------------------------------ program constants
DefaultWaitSecs == 900
DefaultPollSecs == 10

\* ---------------------------------------------------------------- options
None == <<>>
Some(x) == <<x>>

\* dict.get(key): the value, or None when the key is absent
Get(d, k) == IF k \in DOMAIN d THEN Some(d[k]) ELSE None

\* ------------------------------------------------- integers and their text
Digits == <<"0", "1", "2", "3", "4", "5", "6", "7", "8", "9">>

IsDigit(c) == \E i \in 1..10 : Digits[i] = c

DigitVal(c) == (CHOOSE i \in 1..10 : Digits[i] = c) - 1

RECURSIVE DigitsValue(_)
DigitsValue(s) ==
    IF Len(s) = 0 THEN 0
    ELSE 10 * DigitsValue(SubSeq(s, 1, Len(s) - 1)) + DigitVal(s[Len(s)])

AllDigits(s) == Len(s) > 0 /\ \A i \in 1..Len(s) : IsDigit(s[i])

\* int(text): Some(n), or None when int() raises ValueError
ParseInt(s) ==
    IF Len(s) > 0 /\ s[1] \in {"-", "+"}
    THEN IF AllDigits(Tail(s))
         THEN Some(IF s[1] = "-" THEN 0 - DigitsValue(Tail(s)) ELSE DigitsValue(Tail(s)))
         ELSE None
    ELSE IF AllDigits(s) THEN Some(DigitsValue(s)) ELSE None

RECURSIVE NatText(_)
NatText(n) ==
    IF n < 10 THEN <<Digits[n + 1]>>
    ELSE NatText(n \div 10) \o <<Digits[(n % 10) + 1]>>

\* str(n) as an f-string renders an int
IntText(n) == IF n < 0 THEN <<"-">> \o NatText(0 - n) ELSE NatText(n)

\* ------------------------------------------------------------ environment
RequiredVars == <<"REPO", "PR_HEAD_SHA", "GH_TOKEN", "REQUIRED_CONTEXT">>

WaitTexts == {IntText(n) : n \in (0 - 1)..MaxWait} \cup {<<"x">>, <<"-", "0">>}
PollTexts == {IntText(n) : n \in (0 - 1)..MaxPoll} \cup {<<>>}

EnvValues(v) ==
    CASE v = "REPO" -> {"o/r"}
      [] v = "PR_HEAD_SHA" -> {"abc123"}
      [] v = "GH_TOKEN" -> {"tok"}
      [] v = "REQUIRED_CONTEXT" -> {"ci/build"}

OptionOf(S) == {None} \cup {Some(x) : x \in S}

\* an environment maps each variable to None (unset) or Some(text)
Envs ==
    {[REPO |-> a, PR_HEAD_SHA |-> b, GH_TOKEN |-> c, REQUIRED_CONTEXT |-> d,
      LOCAL_STATUS_WAIT_SECS |-> w, LOCAL_STATUS_POLL_SECS |-> p] :
        a \in OptionOf(EnvValues("REPO")), b \in OptionOf(EnvValues("PR_HEAD_SHA")),
        c \in OptionOf(EnvValues("GH_TOKEN")), d \in OptionOf(EnvValues("REQUIRED_CONTEXT")),
        w \in OptionOf(WaitTexts), p \in OptionOf(PollTexts)}

\* os.environ.get(name, default)
EnvGet(e, name, default) == IF e[name] = None THEN default ELSE e[name][1]

\* variant: the token is read with a default and never raises
MissingRequired_TokenOptional(e) ==
    {i \in 1..Len(RequiredVars) : e[RequiredVars[i]] = None /\ RequiredVars[i] # "GH_TOKEN"}

\* the first required variable whose lookup raises KeyError, in lookup order
MissingRequired(e) == {i \in 1..Len(RequiredVars) : e[RequiredVars[i]] = None}

FirstMissing(e) ==
    RequiredVars[CHOOSE i \in MissingRequired(e) : \A j \in MissingRequired(e) : i <= j]

\* --------------------------------------------------------------- payloads
States == {"success", "pending", "failure"}

\* status objects; either key may be absent
StatusEntries ==
    {[context |-> "ci/build", state |-> s] : s \in States}
        \cup {[context |-> "ci/build"], [context |-> "lint", state |-> "success"]}

RECURSIVE SeqsUpTo(_, _)
SeqsUpTo(S, n) ==
    IF n = 0 THEN {<<>>}
    ELSE LET shorter == SeqsUpTo(S, n - 1)
         IN shorter \cup {Append(q, x) : q \in {r \in shorter : Len(r) = n - 1}, x \in S}

\* parsed response bodies: a JSON object with or without the statuses key
Payloads == {[statuses |-> q] : q \in SeqsUpTo(StatusEntries, MaxLen)} \cup {[sha |-> "abc123"]}

FetchFaults == {"URLError", "HTTPError", "JSONDecodeError"}

\* clock ticks that pass during one fetch
FetchTicks == {0, 1}

\* payload.get("statuses", [])
StatusesOf(p) == IF "statuses" \in DOMAIN p THEN p.statuses ELSE <<>>

\* variant: a matching entry without a state is passed over
ScanFrom_SkipStateless(statuses, req, i) ==
    LET hits == {j \in i..Len(statuses) :
                    Get(statuses[j], "context") = Some(req) /\ Get(statuses[j], "state") # None}
    IN  IF hits = {} THEN None
        ELSE Get(statuses[CHOOSE j \in hits : \A k \in hits : j <= k], "state")

\* variant: the loop has no break, the last matching entry wins
ScanFrom_LastWins(statuses, req, i) ==
    LET hits == {j \in i..Len(statuses) : Get(statuses[j], "context") = Some(req)}
    IN  IF hits = {} THEN None
        ELSE Get(statuses[CHOOSE j \in hits : \A k \in hits : k <= j], "state")

\* the for loop of the scan: the state of the first entry whose context
\* equals required, None when the loop runs off the end
RECURSIVE ScanFrom(_, _, _)
ScanFrom(statuses, req, i) ==
    IF i > Len(statuses) THEN None
    ELSE IF Get(statuses[i], "context") = Some(req)
         THEN Get(statuses[i], "state")
         ELSE ScanFrom(statuses, req, i + 1)

FindState(p, req) == ScanFrom(StatusesOf(p), req, 1)

\* ------------------------------------------------------------------ lines
SuccessLine(req) == <<req, " is success">>

MissingLine(req) == <<"Missing required local status: ", req>>

WrongStateLine(req, st) == <<"Local status ", req, " is '", st, "', expected 'success'">>

TimeoutLine(req, fs) == IF fs = None THEN MissingLine(req) ELSE WrongStateLine(req, fs[1])

\* variant: the progress line formats found_state itself
ProgressState_Raw(fs) == IF fs # None THEN fs[1] ELSE "None"

ProgressState(fs) == IF fs # None THEN fs[1] ELSE "missing"

ProgressLine(req, fs, secs) ==
    <<"Waiting for ", req, "=success (current: ", ProgressState(fs), "), retrying in ">>
        \o IntText(secs) \o <<"s...">>

\* ------------------------------------------------------------- conditions
\* variant: the deadline is the budget itself, the start time is left out
Deadline_NoStart(t, wait) == wait

Deadline(t, wait) == t + wait

\* variant: any reported state counts as success
IsSuccess_AnyState(fs) == fs # None

IsSuccess(fs) == fs = Some("success")

\* variant: the deadline counts as reached only once it is strictly passed
DeadlineReached_Strict(t, d) == t > d

DeadlineReached(t, d) == t >= d

\* r, s and t are the one-piece texts of repo, sha and token
RequestFor(r, s, t) ==
    [url |-> <<"https://api.github.com/repos/">> \o r \o <<"/commits/">> \o s \o <<"/status">>,
     authorization |-> <<"Bearer ">> \o t,
     accept |-> "application/vnd.github+json",
     api_version |-> "2022-11-28"]

\* ------------------------------------------------------------------ state
VARIABLES
    env,            \* os.environ
    pc,             \* position of main
    repo, sha, token, required, timeout_secs, poll_secs,   \* configuration
    deadline,
    now,            \* time.time()
    request,        \* the request object of the current iteration
    payload,        \* the parsed body of the last completed fetch
    found_state,
    stdout, stderr, \* lines written so far
    exit_code,      \* None while running, Some(n) once the process exited
    outcome,        \* "Running", "Success", "TimedOut", "UncaughtError"
    fault,          \* the exception that ended the run, None otherwise
    fetches,        \* requests issued
    inFlight,       \* requests issued and not yet answered
    sleeps,         \* completed sleeps
    deadlineChecks, \* evaluations of the deadline comparison
    fetchElapsed,   \* time that passed during fetches
    seen            \* per completed scan: did the context appear, and its state

vars == <<env, pc, repo, sha, token, required, timeout_secs, poll_secs, deadline, now,
          request, payload, found_state, stdout, stderr, exit_code, outcome, fault,
          fetches, inFlight, sleeps, deadlineChecks, fetchElapsed, seen>>

config == <<repo, sha, token, required, timeout_secs, poll_secs>>
output == <<stdout, stderr, exit_code, outcome, fault>>
counters == <<fetches, inFlight, sleeps, deadlineChecks, fetchElapsed, seen>>

Init ==
    /\ env \in Envs
    /\ pc = "start"
    /\ repo = None /\ sha = None /\ token = None /\ required = None
    /\ timeout_secs = 0 /\ poll_secs = 0
    /\ deadline = 0
    /\ now = T0
    /\ request = None
    /\ payload = None
    /\ found_state = None
    /\ stdout = <<>> /\ stderr = <<>>
    /\ exit_code = None
    /\ outcome = "Running"
    /\ fault = None
    /\ fetches = 0 /\ inFlight = 0 /\ sleeps = 0 /\ deadlineChecks = 0
    /\ fetchElapsed = 0
    /\ seen = <<>>

\* an uncaught exception: traceback on stderr, exit status 1
Crash(exc) ==
    /\ pc' = "done"
    /\ outcome' = "UncaughtError"
    /\ fault' = Some(exc)
    /\ stderr' = Append(stderr, <<"Traceback: ", exc[1]>>)
    /\ exit_code' = Some(1)
    /\ UNCHANGED stdout

\* variant: the loop tests the deadline at its head, before the first fetch
LoadConfig_CheckFirst ==
    /\ pc = "start"
    /\ IF MissingRequired(env) # {}
       THEN /\ Crash(<<"KeyError", FirstMissing(env)>>)
            /\ UNCHANGED <<config, deadline>>
       ELSE LET wait == ParseInt(EnvGet(env, "LOCAL_STATUS_WAIT_SECS", IntText(DefaultWaitSecs)))
                poll == ParseInt(EnvGet(env, "LOCAL_STATUS_POLL_SECS", IntText(DefaultPollSecs)))
            IN  IF wait = None \/ poll = None
                THEN /\ Crash(<<"ValueError", "int">>)
                     /\ UNCHANGED <<config, deadline>>
                ELSE /\ repo' = env["REPO"]
                     /\ sha' = env["PR_HEAD_SHA"]
                     /\ token' = env["GH_TOKEN"]
                     /\ required' = env["REQUIRED_CONTEXT"]
                     /\ timeout_secs' = wait[1]
                     /\ poll_secs' = poll[1]
                     /\ deadline' = Deadline(now, wait[1])
                     /\ pc' = "decide"
                     /\ UNCHANGED output
    /\ UNCHANGED <<env, now, request, payload, found_state, counters>>

\* lines 11-18: read the configuration and compute the deadline
LoadConfig ==
    /\ pc = "start"
    /\ IF MissingRequired(env) # {}
       THEN /\ Crash(<<"KeyError", FirstMissing(env)>>)
            /\ UNCHANGED <<config, deadline>>
       ELSE LET wait == ParseInt(EnvGet(env, "LOCAL_STATUS_WAIT_SECS", IntText(DefaultWaitSecs)))
                poll == ParseInt(EnvGet(env, "LOCAL_STATUS_POLL_SECS", IntText(DefaultPollSecs)))
            IN  IF wait = None \/ poll = None
                THEN /\ Crash(<<"ValueError", "int">>)
                     /\ UNCHANGED <<config, deadline>>
                ELSE /\ repo' = env["REPO"]
                     /\ sha' = env["PR_HEAD_SHA"]
                     /\ token' = env["GH_TOKEN"]
                     /\ required' = env["REQUIRED_CONTEXT"]
                     /\ timeout_secs' = wait[1]
                     /\ poll_secs' = poll[1]
                     /\ deadline' = Deadline(now, wait[1])
                     /\ pc' = "loop"
                     /\ UNCHANGED output
    /\ UNCHANGED <<env, now, request, payload, found_state, counters>>

\* lines 20-28: build the request and send it
FetchStart ==
    /\ pc = "loop"
    /\ fetches < MaxFetches
    /\ request' = Some(RequestFor(repo, sha, token))
    /\ fetches' = fetches + 1
    /\ inFlight' = inFlight + 1
    /\ pc' = "fetching"
    /\ UNCHANGED <<env, config, deadline, now, payload, found_state, output,
                   sleeps, deadlineChecks, fetchElapsed, seen>>

\* lines 28-29: the response arrives after d seconds and parses to p
FetchReturn(p, d) ==
    /\ pc = "fetching"
    /\ fetchElapsed + d <= MaxFetchElapsed
    /\ payload' = Some(p)
    /\ now' = now + d
    /\ fetchElapsed' = fetchElapsed + d
    /\ inFlight' = inFlight - 1
    /\ pc' = "scan"
    /\ UNCHANGED <<env, config, deadline, request, found_state, output,
                   fetches, sleeps, deadlineChecks, seen>>

\* variant: the exception is caught and logged, and the loop polls again
FetchFail_Retry(kind, d) ==
    /\ pc = "fetching"
    /\ fetchElapsed + d <= MaxFetchElapsed
    /\ now' = now + d
    /\ fetchElapsed' = fetchElapsed + d
    /\ inFlight' = inFlight - 1
    /\ fault' = Some(<<kind, "urlopen">>)
    /\ stderr' = Append(stderr, <<"Traceback: ", kind>>)
    /\ pc' = "loop"
    /\ UNCHANGED <<env, config, deadline, request, payload, found_state,
                   stdout, exit_code, outcome,
                   fetches, sleeps, deadlineChecks, seen>>

\* lines 28-29: urlopen, read, decode or json.loads raises after d seconds
FetchFail(kind, d) ==
    /\ pc = "fetching"
    /\ fetchElapsed + d <= MaxFetchElapsed
    /\ now' = now + d
    /\ fetchElapsed' = fetchElapsed + d
    /\ inFlight' = inFlight - 1
    /\ Crash(<<kind, "urlopen">>)
    /\ UNCHANGED <<env, config, deadline, request, payload, found_state,
                   fetches, sleeps, deadlineChecks, seen>>

\* does an entry with the required context occur in the payload
Appears(p, req) ==
    \E i \in 1..Len(StatusesOf(p)) : Get(StatusesOf(p)[i], "context") = Some(req)

\* variant: found_state is initialised once, outside the loop, and keeps the
\* state of an earlier poll when the context is absent from this one
Scan_Sticky ==
    /\ pc = "scan"
    /\ found_state' = IF FindState(payload[1], required[1]) = None
                      THEN found_state
                      ELSE FindState(payload[1], required[1])
    /\ seen' = Append(seen, [appeared |-> Appears(payload[1], required[1]),
                             state |-> FindState(payload[1], required[1])])
    /\ pc' = "decide"
    /\ UNCHANGED <<env, config, deadline, now, request, payload, output,
                   fetches, inFlight, sleeps, deadlineChecks, fetchElapsed>>

\* variant: the statuses key is indexed directly and raises KeyError when
\* the payload has none
Scan_KeyError ==
    /\ pc = "scan"
    /\ IF "statuses" \in DOMAIN payload[1]
       THEN /\ found_state' = FindState(payload[1], required[1])
            /\ seen' = Append(seen, [appeared |-> Appears(payload[1], required[1]),
                                     state |-> FindState(payload[1], required[1])])
            /\ pc' = "decide"
            /\ UNCHANGED output
       ELSE /\ Crash(<<"KeyError", "statuses">>)
            /\ UNCHANGED <<found_state, seen>>
    /\ UNCHANGED <<env, config, deadline, now, request, payload,
                   fetches, inFlight, sleeps, deadlineChecks, fetchElapsed>>

\* lines 31-35: scan the statuses for the required context
Scan ==
    /\ pc = "scan"
    /\ found_state' = FindState(payload[1], required[1])
    /\ seen' = Append(seen, [appeared |-> Appears(payload[1], required[1]),
                             state |-> FindState(payload[1], required[1])])
    /\ pc' = "decide"
    /\ UNCHANGED <<env, config, deadline, now, request, payload, output,
                   fetches, inFlight, sleeps, deadlineChecks, fetchElapsed>>

\* lines 37-39
ReturnSuccess ==
    /\ pc = "decide"
    /\ IsSuccess(found_state)
    /\ stdout' = Append(stdout, SuccessLine(required[1]))
    /\ exit_code' = Some(0)
    /\ outcome' = "Success"
    /\ pc' = "done"
    /\ UNCHANGED <<env, config, deadline, now, request, payload, found_state,
                   stderr, fault, counters>>

\* variant: the deadline is tested before the success test
ReturnTimeout_BeforeSuccess ==
    /\ pc = "decide"
    /\ DeadlineReached(now, deadline)
    /\ deadlineChecks' = deadlineChecks + 1
    /\ stderr' = Append(stderr, TimeoutLine(required[1], found_state))
    /\ exit_code' = Some(1)
    /\ outcome' = "TimedOut"
    /\ pc' = "done"
    /\ UNCHANGED <<env, config, deadline, now, request, payload, found_state,
                   stdout, fault, fetches, inFlight, sleeps, fetchElapsed, seen>>

\* variant: a reported "failure" or "error" ends the run without waiting
ReturnTimeout_FailFast ==
    /\ pc = "decide"
    /\ ~IsSuccess(found_state)
    /\ DeadlineReached(now, deadline) \/ found_state \in {Some("failure"), Some("error")}
    /\ deadlineChecks' = deadlineChecks + 1
    /\ stderr' = Append(stderr, TimeoutLine(required[1], found_state))
    /\ exit_code' = Some(1)
    /\ outcome' = "TimedOut"
    /\ pc' = "done"
    /\ UNCHANGED <<env, config, deadline, now, request, payload, found_state,
                   stdout, fault, fetches, inFlight, sleeps, fetchElapsed, seen>>

\* lines 41-49
ReturnTimeout ==
    /\ pc = "decide"
    /\ ~IsSuccess(found_state)
    /\ DeadlineReached(now, deadline)
    /\ deadlineChecks' = deadlineChecks + 1
    /\ stderr' = Append(stderr, TimeoutLine(required[1], found_state))
    /\ exit_code' = Some(1)
    /\ outcome' = "TimedOut"
    /\ pc' = "done"
    /\ UNCHANGED <<env, config, deadline, now, request, payload, found_state,
                   stdout, fault, fetches, inFlight, sleeps, fetchElapsed, seen>>

\* variant: the progress branch does not depend on the success test
WriteProgress_BeforeSuccess ==
    /\ pc = "decide"
    /\ ~DeadlineReached(now, deadline)
    /\ deadlineChecks' = deadlineChecks + 1
    /\ stdout' = Append(stdout, ProgressLine(required[1], found_state, poll_secs))
    /\ pc' = "sleep"
    /\ UNCHANGED <<env, config, deadline, now, request, payload, found_state,
                   stderr, exit_code, outcome, fault,
                   fetches, inFlight, sleeps, fetchElapsed, seen>>

\* lines 41 and 51-54: the deadline has not passed, write the progress line
WriteProgress ==
    /\ pc = "decide"
    /\ ~IsSuccess(found_state)
    /\ ~DeadlineReached(now, deadline)
    /\ deadlineChecks' = deadlineChecks + 1
    /\ stdout' = Append(stdout, ProgressLine(required[1], found_state, poll_secs))
    /\ pc' = "sleep"
    /\ UNCHANGED <<env, config, deadline, now, request, payload, found_state,
                   stderr, exit_code, outcome, fault,
                   fetches, inFlight, sleeps, fetchElapsed, seen>>

\* variant: the loop goes round without waiting
Sleep_NoAdvance ==
    /\ pc = "sleep"
    /\ poll_secs >= 0
    /\ sleeps' = sleeps + 1
    /\ pc' = "loop"
    /\ UNCHANGED <<env, config, deadline, now, request, payload, found_state, output,
                   fetches, inFlight, deadlineChecks, fetchElapsed, seen>>

\* line 55: time.sleep(poll_secs) for a non-negative interval
Sleep ==
    /\ pc = "sleep"
    /\ poll_secs >= 0
    /\ now' = now + poll_secs
    /\ sleeps' = sleeps + 1
    /\ pc' = "loop"
    /\ UNCHANGED <<env, config, deadline, request, payload, found_state, output,
                   fetches, inFlight, deadlineChecks, fetchElapsed, seen>>

\* line 55: time.sleep raises ValueError for a negative interval
SleepFail ==
    /\ pc = "sleep"
    /\ poll_secs < 0
    /\ Crash(<<"ValueError", "sleep">>)
    /\ UNCHANGED <<env, config, deadline, now, request, payload, found_state, counters>>

Next ==
    \/ LoadConfig
    \/ FetchStart
    \/ \E p \in Payloads, d \in FetchTicks : FetchReturn(p, d)
    \/ \E kind \in FetchFaults, d \in FetchTicks : FetchFail(kind, d)
    \/ Scan
    \/ ReturnSuccess
    \/ ReturnTimeout
    \/ WriteProgress
    \/ Sleep
    \/ SleepFail

Spec == Init /\ [][Next]_vars

\* payloads with at most one status entry, and the payload without the key
ShortPayloads == {p \in Payloads : Len(StatusesOf(p)) <= 1}

\* the steps of main, with the responses drawn from the short payloads
FairNext ==
    \/ LoadConfig
    \/ FetchStart
    \/ \E p \in ShortPayloads, d \in FetchTicks : FetchReturn(p, d)
    \/ \E kind \in FetchFaults, d \in FetchTicks : FetchFail(kind, d)
    \/ Scan
    \/ ReturnSuccess
    \/ ReturnTimeout
    \/ WriteProgress
    \/ Sleep
    \/ SleepFail

\* every fetch returns or raises, every sleep ends, and the process is
\* scheduled whenever it can take a step
FairSpec == Init /\ [][FairNext]_vars /\ WF_vars(FairNext)

\* =========================================================================
\* Properties
\* =========================================================================

\* the text of REQUIRED_CONTEXT as the environment gives it
Ctx == env["REQUIRED_CONTEXT"][1]

MissingText == <<"Missing required local status: ", Ctx>>

WrongStateText(st) == <<"Local status ", Ctx, " is '", st, "', expected 'success'">>

\* positions of the final payload's entries that carry the required context
Hits == {i \in 1..Len(StatusesOf(payload[1])) :
            "context" \in DOMAIN StatusesOf(payload[1])[i]
            /\ StatusesOf(payload[1])[i].context = Ctx}

FirstHit == CHOOSE i \in Hits : \A j \in Hits : i <= j

\* the first matching entry of the final payload carries a state
FirstHitHasState == Hits # {} /\ "state" \in DOMAIN StatusesOf(payload[1])[FirstHit]

FirstHitState == StatusesOf(payload[1])[FirstHit].state

CeilDiv(a, b) == (a + b - 1) \div b

IdealClock == fetchElapsed = 0

\* C1 (as stated): in a timeout run whose clock advances only in sleeps, by
\* the poll interval each, the number of fetches is floor(W / P) + 1.
C1_FloorCount ==
    (outcome = "TimedOut" /\ IdealClock /\ timeout_secs >= 0 /\ poll_secs > 0)
        => fetches = (timeout_secs \div poll_secs) + 1

\* C1 (amended): in a timeout run whose clock advances only in sleeps, by
\* the poll interval each, the number of fetches is ceil(W / P) + 1 when
\* P > 0, and 1 when P = 0 (which requires W = 0).
C1_CeilCount ==
    (outcome = "TimedOut" /\ IdealClock /\ timeout_secs >= 0 /\ poll_secs >= 0)
        => IF poll_secs > 0
           THEN fetches = CeilDiv(timeout_secs, poll_secs) + 1
           ELSE timeout_secs = 0 /\ fetches = 1

C1_Witness ==
    /\ outcome = "TimedOut" /\ IdealClock
    /\ timeout_secs = 1 /\ poll_secs = 10 /\ fetches = 2

\* polls of the run in which the context was observed with a state
ObservedPolls == {i \in 1..Len(seen) : seen[i].state # None}

LastObserved == CHOOSE i \in ObservedPolls : \A j \in ObservedPolls : j <= i

\* C2 (as stated): on timeout the stderr line is the Missing line when the
\* context was observed in no poll of the run, and otherwise names the last
\* observed state, even when the final poll lacks the context.
C2_LastObservedAcrossPolls ==
    outcome = "TimedOut"
        => stderr = <<IF ObservedPolls = {} THEN MissingText
                      ELSE WrongStateText(seen[LastObserved].state[1])>>

\* C2 (amended): on timeout the stderr line is decided by the final poll
\* alone: the Missing line when the final payload has no entry for the
\* context (or its first such entry has no state), and otherwise the line
\* naming the state of the first such entry of the final payload.
C2_FinalPollDecides ==
    outcome = "TimedOut"
        => stderr = <<IF FirstHitHasState THEN WrongStateText(FirstHitState)
                      ELSE MissingText>>

C2_Witness ==
    /\ outcome = "TimedOut"
    /\ Len(seen) = 2
    /\ seen[1].state = Some("pending")
    /\ ~seen[2].appeared
    /\ stderr = <<MissingText>>

\* C3: when the first fetch reports success the run ends in that iteration:
\* one fetch, no sleep, no progress line, the success line, exit code 0.
C3_FirstSuccess ==
    (Len(seen) >= 1 /\ seen[1].state = Some("success") /\ pc # "decide")
        => /\ pc = "done" /\ outcome = "Success"
           /\ exit_code = Some(0)
           /\ fetches = 1 /\ sleeps = 0
           /\ stdout = <<<<Ctx, " is success">>>>
           /\ stderr = <<>>

C3_Witness ==
    /\ Len(seen) = 1 /\ seen[1].state = Some("success")
    /\ pc = "done" /\ exit_code = Some(0)
    /\ timeout_secs < 0 /\ poll_secs < 0

\* C4: with a wait budget of 0 or less and a first payload without the
\* required context the run makes one fetch, never sleeps and exits 1 with
\* the Missing line.
C4_NoBudgetMissing ==
    (Len(seen) >= 1 /\ ~seen[1].appeared /\ timeout_secs <= 0 /\ pc # "decide")
        => /\ pc = "done" /\ outcome = "TimedOut"
           /\ exit_code = Some(1)
           /\ fetches = 1 /\ sleeps = 0
           /\ stdout = <<>>
           /\ stderr = <<MissingText>>

C4_Witness ==
    /\ Len(seen) = 1 /\ ~seen[1].appeared /\ timeout_secs = 0
    /\ pc = "done" /\ exit_code = Some(1) /\ fetchElapsed = 0

AllPending == Len(seen) >= 1 /\ \A i \in 1..Len(seen) : seen[i].state = Some("pending")

\* C5: while every completed poll reported pending the run never exits 0,
\* it never goes on to sleep once the deadline is reached, and when it
\* returns it returns 1 with the line naming 'pending'.
C5_AllPending ==
    AllPending
        => /\ exit_code # Some(0)
           /\ (pc = "sleep" => now < T0 + timeout_secs)
           /\ (pc = "done" /\ fault = None
                  => /\ outcome = "TimedOut"
                     /\ exit_code = Some(1)
                     /\ now >= T0 + timeout_secs
                     /\ stderr = <<WrongStateText("pending")>>)

C5_Witness ==
    /\ AllPending /\ Len(seen) = 3
    /\ outcome = "TimedOut"
    /\ stderr = <<WrongStateText("pending")>>

FirstHitOption == IF FirstHitHasState THEN Some(FirstHitState) ELSE None

\* C7: when several entries of the payload carry the required context the
\* state of the first of them is the recorded state, and it alone decides
\* the outcome and the text of the line written in that iteration.
C7_FirstMatchWins ==
    (payload # None /\ pc # "scan" /\ Cardinality(Hits) >= 2)
        => /\ found_state = FirstHitOption
           /\ (outcome = "Success" => FirstHitOption = Some("success"))
           /\ (outcome = "TimedOut"
                  => /\ FirstHitOption # Some("success")
                     /\ stderr = <<IF FirstHitHasState THEN WrongStateText(FirstHitState)
                                   ELSE MissingText>>)
           /\ (pc = "sleep"
                  => /\ FirstHitOption # Some("success")
                     /\ stdout[Len(stdout)][4] =
                            (IF FirstHitHasState THEN FirstHitState ELSE "missing"))

C7_Witness ==
    /\ payload # None /\ Cardinality(Hits) >= 2
    /\ Get(StatusesOf(payload[1])[1], "state") = Some("failure")
    /\ Get(StatusesOf(payload[1])[2], "state") = Some("success")
    /\ outcome = "TimedOut"

FetchFaulted == fault # None /\ fault[1][1] \in FetchFaults

\* C8: polls are sequential and the deadline is only tested after a fetch:
\* at most one request is in flight, a request is in flight exactly while
\* main waits for it, every request but the current one has been answered
\* and classified (or has ended the run), and every deadline test follows
\* its own completed fetch, so a handled exit implies at least one fetch.
C8_SequentialFetchFirst ==
    /\ inFlight \in {0, 1}
    /\ (inFlight = 1 <=> pc = "fetching")
    /\ fetches = Len(seen) + inFlight
                    + (IF pc = "scan" THEN 1 ELSE 0) + (IF FetchFaulted THEN 1 ELSE 0)
    /\ deadlineChecks <= Len(seen)
    /\ (deadlineChecks >= 1 => fetches >= 1)
    /\ (outcome \in {"Success", "TimedOut"} => fetches >= 1)

C8_Witness ==
    /\ timeout_secs < 0 /\ outcome = "TimedOut"
    /\ fetches = 1 /\ deadlineChecks = 1

IsProgressLine(l) == l[1] = "Waiting for "

\* C9: a failed fetch ends the run at once in the uncaught-error outcome:
\* nothing is written to stdout for that iteration, no timeout line is
\* written, no sleep follows it, and no step at all (no retry) follows it.
C9_FetchFailureIsFatal ==
    /\ [](FetchFaulted
            => /\ pc = "done"
               /\ outcome = "UncaughtError"
               /\ exit_code # None /\ exit_code # Some(0)
               /\ inFlight = 0
               /\ fetches = Len(seen) + 1
               /\ sleeps = Len(seen)
               /\ Len(stdout) = Len(seen)
               /\ \A i \in 1..Len(stdout) : IsProgressLine(stdout[i])
               /\ Len(stderr) = 1 /\ stderr[1][1] = "Traceback: ")
    /\ [][fault = None]_vars

C9_Witness ==
    /\ FetchFaulted /\ pc = "done" /\ fetches = 2 /\ sleeps = 1

SomeRequiredMissing ==
    \E v \in {"REPO", "PR_HEAD_SHA", "GH_TOKEN", "REQUIRED_CONTEXT"} : env[v] = None

\* C10: when a required environment variable is missing the run fails at
\* startup: no request is ever built or sent, nothing is written to stdout,
\* no timeout line is written, and the exit status is not 0.
C10_MissingEnvFailsFast ==
    SomeRequiredMissing
        => /\ fetches = 0 /\ inFlight = 0 /\ request = None
           /\ stdout = <<>>
           /\ outcome \in {"Running", "UncaughtError"}
           /\ (pc # "start"
                  => /\ pc = "done"
                     /\ outcome = "UncaughtError"
                     /\ exit_code = Some(1)
                     /\ Len(stderr) = 1 /\ stderr[1][1] = "Traceback: "
                     /\ fault[1][1] = "KeyError")

C10_Witness ==
    /\ env["GH_TOKEN"] = None /\ env["REPO"] # None
    /\ pc = "done" /\ outcome = "UncaughtError" /\ fetches = 0

\* the last line written to stdout names this state as the current one
LastProgressShows(st) ==
    /\ Len(stdout) >= 1
    /\ stdout[Len(stdout)] =
           <<"Waiting for ", Ctx, "=success (current: ", st, "), retrying in ">>
               \o IntText(poll_secs) \o <<"s...">>

LastSeen == seen[Len(seen)]

NoStatusesKey == payload # None /\ "statuses" \notin DOMAIN payload[1]

\* C11: a parsed payload without a statuses key is classified like one whose
\* statuses are empty: no error is raised by it, the recorded state is None,
\* the progress line shows "missing", and at the deadline the run exits 1
\* with the Missing line.
C11_NoStatusesKeyIsEmpty ==
    (NoStatusesKey /\ pc # "scan")
        => /\ found_state = None
           /\ found_state = FindState([statuses |-> <<>>], Ctx)
           /\ (fault # None => fault[1][1] \in FetchFaults \cup {"ValueError"})
           /\ Len(seen) >= 1
           /\ LastSeen = [appeared |-> FALSE, state |-> None]
           /\ outcome # "Success"
           /\ (pc = "decide" => outcome = "Running")
           /\ (pc = "sleep" => LastProgressShows("missing") /\ now < T0 + timeout_secs)
           /\ (outcome = "TimedOut"
                  => /\ now >= T0 + timeout_secs
                     /\ exit_code = Some(1)
                     /\ stderr = <<MissingText>>)

C11_Witness ==
    /\ NoStatusesKey
    /\ outcome = "TimedOut" /\ stderr = <<MissingText>>
    /\ Len(stdout) = 1 /\ stdout[1][4] = "missing"

\* C12: success is decided before the deadline is looked at: once the scan
\* of a poll recorded "success" the run exits 0 with the success line, also
\* when the clock is at or past the deadline, and a run that timed out did
\* not record "success" in its final poll.
C12_SuccessBeforeDeadline ==
    /\ (Len(seen) >= 1 /\ LastSeen.state = Some("success") /\ pc # "decide")
          => /\ pc = "done" /\ outcome = "Success"
             /\ exit_code = Some(0)
             /\ stdout[Len(stdout)] = <<Ctx, " is success">>
             /\ stderr = <<>>
    /\ (outcome = "TimedOut" => found_state # Some("success") /\ LastSeen.state # Some("success"))

C12_Witness ==
    /\ outcome = "Success" /\ exit_code = Some(0)
    /\ now >= T0 + timeout_secs /\ timeout_secs > 0
    /\ fetches = 2

\* what the progress line shows for a recorded state
ShownState(fs) == IF fs = None THEN "missing" ELSE fs[1]

\* C13: a run that returns after n fetches wrote n-1 progress lines and slept
\* n-1 times, each sleep lasting the poll interval; in every iteration that
\* does not return the order is fetch, progress line, sleep, next fetch; the
\* i-th progress line shows "missing" exactly when the i-th recorded state is
\* None and the raw state otherwise; nothing follows the terminal fetch.
C13_ProgressAndSleeps ==
    (pc # "start" /\ (pc = "done" => outcome \in {"Success", "TimedOut"}))
        => /\ now = T0 + fetchElapsed + sleeps * poll_secs
           /\ (pc \in {"loop"} => fetches = sleeps /\ Len(stdout) = sleeps /\ Len(seen) = sleeps)
           /\ (pc \in {"fetching", "scan"}
                  => fetches = sleeps + 1 /\ Len(stdout) = sleeps /\ Len(seen) = sleeps)
           /\ (pc = "decide"
                  => fetches = sleeps + 1 /\ Len(stdout) = sleeps /\ Len(seen) = fetches)
           /\ (pc = "sleep"
                  => fetches = sleeps + 1 /\ Len(stdout) = fetches /\ Len(seen) = fetches)
           /\ (pc = "done"
                  => /\ fetches = Len(seen) /\ sleeps = fetches - 1
                     /\ Len(stdout) = (fetches - 1) + (IF outcome = "Success" THEN 1 ELSE 0)
                     /\ Len(stderr) = (IF outcome = "TimedOut" THEN 1 ELSE 0))
           /\ \A i \in 1..Len(stdout) :
                  (i < Len(seen) \/ pc \in {"sleep", "loop", "fetching", "scan"})
                      => stdout[i] =
                            <<"Waiting for ", Ctx, "=success (current: ",
                              ShownState(seen[i].state), "), retrying in ">>
                                \o IntText(poll_secs) \o <<"s...">>

C13_Witness ==
    /\ outcome = "TimedOut" /\ fetches = 3 /\ sleeps = 2 /\ Len(stdout) = 2
    /\ seen[1].state = None /\ seen[2].state = Some("failure")
    /\ poll_secs = 1

\* the iteration of the final payload has been decided
Decided == payload # None /\ (pc = "sleep" \/ (pc = "done" /\ outcome \in {"Success", "TimedOut"}))

\* C14: nothing of earlier polls is retained: the exit code and the line
\* written by an iteration are a function of that iteration's payload, the
\* clock, the configuration and the deadline alone, so two runs that agree
\* on these agree on exit code and message whatever they polled before.
C14_OutcomeFromFinalPayload ==
    Decided
        => IF FirstHitOption = Some("success")
           THEN /\ outcome = "Success" /\ exit_code = Some(0)
                /\ stdout[Len(stdout)] = <<Ctx, " is success">>
                /\ stderr = <<>>
           ELSE IF now >= T0 + timeout_secs
           THEN /\ outcome = "TimedOut" /\ exit_code = Some(1)
                /\ stderr = <<IF FirstHitHasState THEN WrongStateText(FirstHitState)
                              ELSE MissingText>>
           ELSE /\ pc = "sleep" /\ exit_code = None /\ stderr = <<>>
                /\ LastProgressShows(IF FirstHitHasState THEN FirstHitState ELSE "missing")

C14_Witness ==
    /\ Decided /\ outcome = "TimedOut"
    /\ Len(seen) = 2 /\ seen[1].state = Some("failure")
    /\ Hits = {}
    /\ stderr = <<MissingText>>

\* C15: exit 0 only when the most recent fetch reported success; exit 1 by
\* the timeout path only with the clock at or past start time + wait budget
\* and a most recent fetch that did not report success; the deadline is
\* computed once, before the first fetch, and no later step changes it.
C15_ExitCodeSoundness ==
    /\ [](/\ (exit_code = Some(0)
                 => /\ outcome = "Success"
                    /\ LastSeen.state = Some("success")
                    /\ FirstHitOption = Some("success"))
          /\ (outcome = "TimedOut"
                 => /\ exit_code = Some(1)
                    /\ now >= T0 + timeout_secs
                    /\ LastSeen.state # Some("success")
                    /\ FirstHitOption # Some("success"))
          /\ (fetches >= 1 => deadline = T0 + timeout_secs)
          /\ (pc = "start" => fetches = 0))
    /\ [][pc # "start" => deadline' = deadline]_vars

C15_Witness ==
    /\ outcome = "TimedOut" /\ exit_code = Some(1)
    /\ timeout_secs = 2 /\ deadline = T0 + 2 /\ now = deadline
    /\ sleeps = 2

NonSuccess == {Some(st) : st \in States \ {"success"}}

\* C16: a non-success state such as "failure" does not end the run: while
\* the deadline is not reached the iteration writes the progress line and
\* goes to sleep without exiting, the sleep leads back to the next fetch,
\* and a later "success" still yields exit 0.
C16_OnlySuccessIsTerminal ==
    /\ [][(pc = "decide" /\ found_state \in NonSuccess /\ now < T0 + timeout_secs)
              => /\ pc' = "sleep"
                 /\ exit_code' = None /\ outcome' = "Running"
                 /\ stderr' = stderr
                 /\ stdout' = Append(stdout,
                        <<"Waiting for ", Ctx, "=success (current: ", found_state[1],
                          "), retrying in ">> \o IntText(poll_secs) \o <<"s...">>)]_vars
    /\ [][(pc = "sleep" /\ poll_secs >= 0) => (pc' = "loop" /\ sleeps' = sleeps + 1)]_vars
    /\ [][pc = "loop" => (pc' = "fetching" /\ fetches' = fetches + 1)]_vars
    /\ []((/\ Len(seen) >= 2
           /\ \E i \in 1..(Len(seen) - 1) : seen[i].state \in NonSuccess
           /\ LastSeen.state = Some("success")
           /\ pc # "decide")
              => exit_code = Some(0))

C16_Witness ==
    /\ Len(seen) = 2
    /\ seen[1].state = Some("failure") /\ seen[2].state = Some("success")
    /\ exit_code = Some(0) /\ sleeps = 1

NonNegative(n) == IF n < 0 THEN 0 ELSE n

\* the configuration lets the run reach its deadline within the modelled
\* number of fetches
Terminable ==
    /\ pc # "start" /\ pc # "done"
    /\ poll_secs > 0
    /\ CeilDiv(NonNegative(timeout_secs), poll_secs) + 1 <= MaxFetches

\* C17: with a poll interval > 0 the run terminates: a sleep is only entered
\* before the deadline, so at most ceil(W / P) sleeps occur, and the run
\* eventually returns or raises; with a poll interval of 0 and a positive
\* budget a timeout is reached only by time that elapses during fetches.
C17_Terminates ==
    /\ []((pc # "start" /\ sleeps >= 1) => (sleeps - 1) * poll_secs < timeout_secs)
    /\ []((pc # "start" /\ poll_secs > 0)
              => /\ sleeps <= CeilDiv(NonNegative(timeout_secs), poll_secs)
                 /\ fetches <= CeilDiv(NonNegative(timeout_secs), poll_secs) + 1)
    /\ []((outcome = "TimedOut" /\ poll_secs = 0 /\ timeout_secs > 0)
              => fetchElapsed >= timeout_secs)
    /\ (Terminable ~> (pc = "done"))

C17_Witness ==
    /\ pc = "done" /\ outcome = "TimedOut"
    /\ poll_secs = 1 /\ timeout_secs = 2
    /\ sleeps = 2 /\ fetches = 3 /\ fetchElapsed = 0

FirstHitStateless == payload # None /\ Hits # {} /\ ~FirstHitHasState

\* C18: when the first entry matching the required context has no state the
\* scan stops there and records None: the iteration counts as missing (the
\* progress line shows "missing", the timeout line is the Missing line) and
\* never as success, also when a later entry of the same context has state
\* "success".
C18_StatelessFirstMatch ==
    (FirstHitStateless /\ pc # "scan")
        => /\ found_state = None
           /\ Len(seen) >= 1
           /\ LastSeen = [appeared |-> TRUE, state |-> None]
           /\ outcome # "Success" /\ exit_code # Some(0)
           /\ (pc = "sleep" => LastProgressShows("missing"))
           /\ (outcome = "TimedOut" => stderr = <<MissingText>>)

C18_Witness ==
    /\ FirstHitStateless
    /\ Cardinality(Hits) = 2
    /\ Get(StatusesOf(payload[1])[2], "state") = Some("success")
    /\ outcome = "TimedOut" /\ stderr = <<MissingText>>

====
